---- MODULE Spec2Model ----
(***************************************************************************)
(* cachex: the call-interception protocol of the caching decorator         *)
(* (decorator/Decorator.py) over a converted cache container               *)
(* (caches/CacheMixin.py).  Threads call the decorated callable and its    *)
(* cache_clear accessor; every step below is one atomic operation of the   *)
(* interpreter on shared state (an attribute read or write, a dict item    *)
(* access, a lock acquisition, a statement executed while the lock is      *)
(* held).                                                                  *)
(***************************************************************************)
EXTENDS Integers, FiniteSets, Sequences, TLC

\* ------------------------------------------------------------------ bounds
\* Operations started in all: on a plain function, and on a method, whose
\* get_cache adds four steps and one cache per receiver.
MaxOps == 3
MaxMethodOps == 2
\* The values the original callable returns are 1..MaxVal, a value's size is
\* its number; maxsize is the capacity given to the cache.
MaxVal == 2
\* Operations made one after the other on a decorated callable.
MaxCalls == 2
maxsize == 1

\* ------------------------------------------------------------- value sets
Threads == {"t1", "t2"}
Objs == {"a", "b"}
\* The keys the calls derive from their arguments.
Keys == {"k1", "k2"}
NoKey == "-"
\* Arguments the key function raises on, and a key that cannot be hashed.
KeyRaises == "key-raises"
UnhashableKey == "unhashable"
\* Cache instances: 0 is the cache built at decoration time, the others are
\* the clones made by get_cache, at most one per operation.
CacheIds == 0..MaxOps
\* The dicts stored under the receiver's cache attribute.
StorageIds == 1..MaxOps

NoAttr == 0
NoCache == -1
NoThread == "-"
NoObj == "-"

\* The exception types the original callable may raise, and the ones the
\* decorator was told to cache.
Raisable == {"ValueError", "TypeError"}
exceptions == {"ValueError"}

NoValue == [tag |-> "nil", n |-> 0, e |-> "-"]
Val(n) == [tag |-> "val", n |-> n, e |-> "-"]
CachedException(e) == [tag |-> "exc", n |-> 0, e |-> e]
isCachedException(v) == v.tag = "exc"

Values == {Val(n) : n \in 1..MaxVal}

Returned(v) == [how |-> "return", v |-> v]
Raised(e) == [how |-> "raise", v |-> CachedException(e)]

\* ---------------------------------------------------------- the container
\* The size the container's size function gives a value.
getsizeof(v) == IF v.tag = "val" THEN v.n ELSE 1

RECURSIVE SumSizes(_, _)
SumSizes(d, ks) ==
    IF ks = {} THEN 0
    ELSE LET j == CHOOSE x \in ks : TRUE
         IN getsizeof(d[j]) + SumSizes(d, ks \ {j})

currsize(d) == SumSizes(d, DOMAIN d)

Without(d, k) == [j \in (DOMAIN d) \ {k} |-> d[j]]
With(d, k, v) == [j \in (DOMAIN d) \cup {k} |-> IF j = k THEN v ELSE d[j]]
EmptyData == [j \in {} |-> NoValue]

\* popitem() repeated until a value of the given size fits; the victim is the
\* container's choice.  Each result carries the number of items popped.
RECURSIVE Evict(_, _, _)
Evict(d, size, n) ==
    IF currsize(d) + size <= maxsize \/ DOMAIN d = {}
    THEN {[d |-> d, popped |-> n]}
    ELSE UNION {Evict(Without(d, j), size, n + 1) : j \in DOMAIN d}

\* Cache.__setitem__: the outcomes of d[k] = v.
Cache_setitem(d, k, v) ==
    LET size == getsizeof(v) IN
    IF size > maxsize
    THEN {[rejected |-> TRUE, d |-> d, popped |-> 0]}
    ELSE LET room == IF k \notin DOMAIN d \/ getsizeof(d[k]) < size
                     THEN Evict(d, size, 0)
                     ELSE {[d |-> d, popped |-> 0]}
         IN {[rejected |-> FALSE, d |-> With(r.d, k, v), popped |-> r.popped] : r \in room}

\* ------------------------------------------------------------- CacheMixin
\* CacheMixin.__missing__: marks the miss for the counted access in progress,
\* then the container raises KeyError.
CacheMixin_missing(enabled, misses_suspended, missed) ==
    IF enabled /\ ~misses_suspended THEN "True" ELSE missed

\* Mutant of CacheMixin_getitem: the missing-key hook counts the miss itself
\* and the access counts it again.
CacheMixin_getitem_ghost_miss(enabled, d, k) ==
    LET present == k \in DOMAIN d
        value == IF present THEN d[k] ELSE NoValue
    IN [found |-> present, v |-> value,
        dhits |-> IF enabled /\ present THEN 1 ELSE 0,
        dmisses |-> IF enabled /\ ~present THEN 2 ELSE 0, err |-> "-"]

\* CacheMixin.__getitem__ on data d: whether the key was found, the value, the
\* increments of the counters and the error that is not a KeyError.  The
\* container raises TypeError on a key that cannot be hashed: the missing-key
\* hook did not run, so the finally clause counts a hit.
CacheMixin_getitem(enabled, d, k) ==
    LET present == k \in DOMAIN d
        value == IF present THEN d[k] ELSE NoValue
    IN IF k = UnhashableKey
       THEN [found |-> FALSE, v |-> NoValue,
             dhits |-> IF enabled THEN 1 ELSE 0, dmisses |-> 0, err |-> "TypeError"]
       ELSE IF enabled
       THEN LET inHook == IF present THEN "False"
                          ELSE CacheMixin_missing(enabled, FALSE, "False")
                missed == IF present THEN inHook ELSE "True"
            IN [found |-> present, v |-> value,
                dhits |-> IF missed = "False" THEN 1 ELSE 0,
                dmisses |-> IF missed = "False" THEN 0 ELSE 1, err |-> "-"]
       ELSE [found |-> present, v |-> value, dhits |-> 0, dmisses |-> 0, err |-> "-"]

\* ------------------------------------------------------------------ state
VARIABLES
    cfg,              \* the decoration: mode of cache binding, lock disabled
    attr,             \* receiver -> the dict under its cache attribute
    cstorage,         \* dict -> the cache stored under the function's name
    nStorage,         \* dicts created
    nCaches,          \* clones created
    data,             \* cache -> its contents
    hits, misses,     \* cache -> its counters
    counters_enabled, \* cache -> automatic counting switch
    ctx_saved,        \* cache -> the switch saved by its counters context
    lockOwner,        \* cache -> the thread holding its lock
    loc,              \* thread -> the locals of its current operation
    nops,             \* operations started
    config,           \* the decorator's parameters and the callable it is given
    decorated,        \* what decorator(func) made of them
    objstate,         \* receiver -> its attributes
    kcache,           \* cache -> its entries and counters (sequential calls)
    lastop, prevop,   \* the last operation on the decorated callable, and the one before
    ncalls,           \* operations made on the decorated callable
    lastEvent         \* history: cache, key -> the last store, eviction or clear

\* The state of the threads' calls, and the state of a decoration and of the
\* sequential calls that follow it.
cvars == <<cfg, attr, cstorage, nStorage, nCaches, data, hits, misses,
           counters_enabled, ctx_saved, lockOwner, loc, nops, lastEvent>>
dvars == <<config, decorated, objstate, kcache, lastop, prevop, ncalls>>
vars == <<cvars, dvars>>

\* The part of the state a specification does not use.
Unused == "-"
DecoIdle ==
    /\ config = Unused /\ decorated = Unused /\ objstate = Unused
    /\ kcache = Unused /\ lastop = Unused /\ prevop = Unused /\ ncalls = 0

Event(kind, v) == [kind |-> kind, v |-> v]
NoEvent == Event("n/a", NoValue)
AbsentKinds == {"none", "clear", "raised", "rejected"}

NoInfo == [hits |-> 0, misses |-> 0, maxsize |-> 0, currsize |-> 0]

Idle == [pc |-> "idle", op |-> "none", obj |-> NoObj, k |-> NoKey,
         cst |-> NoAttr, c |-> NoCache, hit |-> FALSE, v |-> NoValue,
         exc |-> "-", seen |-> NoEvent, invoked |-> 0, st |-> "no",
         lockobj |-> NoObj, info |-> NoInfo, entered |-> FALSE]

\* The lock parameter: not given, a lock instance, or an accessor taking the
\* receiver.
Configs == {[mode |-> "perobj", nolock |-> FALSE, lock |-> "none"],
            [mode |-> "single", nolock |-> FALSE, lock |-> "none"],
            [mode |-> "single", nolock |-> TRUE, lock |-> "none"],
            [mode |-> "external", nolock |-> FALSE, lock |-> "none"]}

\* Locks: each cache's own, the instance given as the lock parameter, and the
\* one a lock accessor returns for each receiver.
NoLockId == -1
ConfigLock == -2
lock_accessor(o) == IF o = "a" THEN -3 ELSE -4
LockIds == CacheIds \cup {ConfigLock} \cup {lock_accessor(o) : o \in Objs}

\* No thread has started anything.
CallIdle ==
    /\ attr = [o \in Objs |-> NoAttr]
    /\ cstorage = [s \in StorageIds |-> NoCache]
    /\ nStorage = 0
    /\ nCaches = 0
    /\ data = [c \in CacheIds |-> EmptyData]
    /\ hits = [c \in CacheIds |-> 0]
    /\ misses = [c \in CacheIds |-> 0]
    /\ counters_enabled = [c \in CacheIds |-> FALSE]
    /\ ctx_saved = [c \in CacheIds |-> FALSE]
    /\ lockOwner = [l \in LockIds |-> NoThread]
    /\ loc = [t \in Threads |-> Idle]
    /\ nops = 0
    /\ lastEvent = [c \in CacheIds |-> [k \in Keys |-> Event("none", NoValue)]]

Init ==
    /\ cfg \in Configs
    /\ CallIdle
    /\ DecoIdle

\* The cache's lock is a real lock unless it was disabled on the decoration's
\* cache; a clone always gets the default lock.
HasLock(c) == ~(cfg.nolock /\ c = 0)
cache_lock(c) == IF HasLock(c) THEN c ELSE NoLockId

\* get_altlock(*args): None without a lock parameter, the lock instance, or
\* what the lock accessor returns for the receiver it is handed.
get_altlock(o) ==
    IF cfg.lock = "instance" THEN ConfigLock
    ELSE IF cfg.lock = "accessor" THEN lock_accessor(o)
    ELSE NoLockId

\* `lock = get_altlock(*args) or cache.lock`.
resolved_lock(c, o) ==
    IF get_altlock(o) # NoLockId THEN get_altlock(o) ELSE cache_lock(c)

\* The lock of the operation thread t is in.
lock_of(t) == resolved_lock(loc[t].c, loc[t].lockobj)

\* Mutant of LockFree: a call keeps others out of its lock while its
\* callable is running.
LockFree_while_no_call(l, t) ==
    l # NoLockId =>
        /\ lockOwner[l] = NoThread
        /\ \A u \in Threads : ~(loc[u].pc = "call" /\ lock_of(u) = l)

\* Entering and leaving `with lock:`; NoLock does nothing.
LockFree(l, t) == l # NoLockId => lockOwner[l] = NoThread
Acquire(l, t) == IF l # NoLockId THEN [lockOwner EXCEPT ![l] = t] ELSE lockOwner
\* Mutant of Release: the with statement leaves without releasing the lock.
Release_never(l, t) == lockOwner
Release(l, t) == IF l # NoLockId THEN [lockOwner EXCEPT ![l] = NoThread] ELSE lockOwner

\* Where an operation goes once its cache is resolved.
AfterResolve(op) ==
    IF op = "call" THEN "lookup_enter"
    ELSE IF op = "cache_clear" THEN "clear_enter"
    ELSE "info_enter"


\* ------------------------------------------------------- starting a call
\* A method is called through a receiver; a plain function has none.
Receivers == IF cfg.mode = "perobj" THEN Objs ELSE {NoObj}

OpsBound == IF cfg.mode = "perobj" THEN MaxMethodOps ELSE MaxOps

\* A thread starts wrapper(obj, k) or cache_clear(obj).  With a function
\* owned cache, get_cache is `lambda *args: cache`.
Begin(t) ==
    /\ loc[t].pc = "idle"
    /\ nops < OpsBound
    /\ \E op \in {"call", "cache_clear"}, o \in Receivers :
         \E k \in (IF op = "call" THEN Keys ELSE {NoKey}) :
           loc' = [loc EXCEPT ![t] =
                     [Idle EXCEPT !.op = op, !.obj = o, !.k = k, !.lockobj = o,
                                  !.pc = IF cfg.mode = "perobj" THEN "gc_getattr"
                                         ELSE IF cfg.mode = "external" THEN "gc_shared"
                                         ELSE AfterResolve(op),
                                  !.c = IF cfg.mode = "single" THEN 0 ELSE NoCache]]
    /\ nops' = nops + 1
    /\ UNCHANGED <<dvars, cfg, attr, cstorage, nStorage, nCaches, data, hits, misses,
                   counters_enabled, ctx_saved, lockOwner, lastEvent>>

\* ------------------------------------------------------------- get_cache
\* cstorage = getattr(obj, attr_cache_name), or AttributeError.
gc_getattr(t) ==
    /\ loc[t].pc = "gc_getattr"
    /\ loc' = [loc EXCEPT ![t].cst = attr[loc[t].obj],
                          ![t].pc = IF attr[loc[t].obj] = NoAttr
                                    THEN "gc_setattr" ELSE "gc_getitem"]
    /\ UNCHANGED <<dvars, cfg, attr, cstorage, nStorage, nCaches, data, hits, misses,
                   counters_enabled, ctx_saved, lockOwner, nops, lastEvent>>

\* cstorage = {}; setattr(obj, attr_cache_name, cstorage).
gc_setattr(t) ==
    /\ loc[t].pc = "gc_setattr"
    /\ nStorage' = nStorage + 1
    /\ attr' = [attr EXCEPT ![loc[t].obj] = nStorage + 1]
    /\ loc' = [loc EXCEPT ![t].cst = nStorage + 1, ![t].pc = "gc_getitem"]
    /\ UNCHANGED <<dvars, cfg, cstorage, nCaches, data, hits, misses,
                   counters_enabled, ctx_saved, lockOwner, nops, lastEvent>>

\* c = cstorage[funcname], or KeyError.
gc_getitem(t) ==
    /\ loc[t].pc = "gc_getitem"
    /\ loc' = [loc EXCEPT ![t].c = cstorage[loc[t].cst],
                          ![t].pc = IF cstorage[loc[t].cst] = NoCache
                                    THEN "gc_clone" ELSE AfterResolve(loc[t].op)]
    /\ UNCHANGED <<dvars, cfg, attr, cstorage, nStorage, nCaches, data, hits, misses,
                   counters_enabled, ctx_saved, lockOwner, nops, lastEvent>>

\* Mutant of clone: after the first, the instance made last is handed out
\* again.
clone_reuses_last(n) == IF n = 0 THEN 1 ELSE n

\* Mutant of clone: the cache itself is handed out, not a new instance.
clone_returns_self(n) == 0

\* CacheMixin.clone: type(self)(**configuration), the n-th instance made.
clone(n) == n + 1

\* c = cache.clone(); cstorage[funcname] = c.  The clone is a fresh instance
\* built from the configuration: empty, counters 0, its own default lock.
gc_clone(t) ==
    /\ loc[t].pc = "gc_clone"
    /\ nCaches' = nCaches + 1
    /\ cstorage' = [cstorage EXCEPT ![loc[t].cst] = clone(nCaches)]
    /\ loc' = [loc EXCEPT ![t].c = clone(nCaches), ![t].pc = AfterResolve(loc[t].op)]
    /\ UNCHANGED <<dvars, cfg, attr, nStorage, data, hits, misses,
                   counters_enabled, ctx_saved, lockOwner, nops, lastEvent>>

\* ------------------------------------------- an external shared cache
\* Mutant of bypass: the wrapper goes on to the lookup whatever it got.
bypass_never(c) == FALSE

\* wrapper: `if cache is None`.
bypass(c) == c = NoCache

\* Where an operation goes with what the shared-cache accessor returned: a
\* call without a cache goes straight to the original callable; cache_clear
\* without a cache fails on `cache.lock`.
after_get_cache(op, c) ==
    IF op = "call" THEN (IF bypass(c) THEN "call_direct" ELSE AfterResolve(op))
    ELSE IF c = NoCache THEN "accessor_error" ELSE AfterResolve(op)

\* cache = get_cache(*args) with a shared-cache accessor that takes no
\* receiver: `shared()` returns the shared cache, or None.
gc_shared(t) ==
    /\ loc[t].pc = "gc_shared"
    /\ \E c \in {0, NoCache} :
         loc' = [loc EXCEPT ![t].c = c, ![t].pc = after_get_cache(loc[t].op, c)]
    /\ UNCHANGED <<dvars, cfg, attr, cstorage, nStorage, nCaches, data, hits, misses,
                   counters_enabled, ctx_saved, lockOwner, nops, lastEvent>>

\* What `return call(*args, **kwargs)` makes of the callable's outcome: its
\* value is returned and any exception it raises leaves the wrapper as it is.
direct_call(outcome) ==
    IF outcome.tag = "val" THEN [pc |-> "direct_return", v |-> outcome, exc |-> "-"]
    ELSE [pc |-> "direct_raise", v |-> NoValue, exc |-> outcome.e]

\* `return call(*args, **kwargs)`: the call without a cache.
call_direct(t) ==
    /\ loc[t].pc = "call_direct"
    /\ \E outcome \in Values \cup {CachedException(e) : e \in Raisable} :
         LET a == direct_call(outcome) IN
         loc' = [loc EXCEPT ![t].pc = a.pc, ![t].v = a.v, ![t].exc = a.exc,
                            ![t].invoked = @ + 1]
    /\ UNCHANGED <<dvars, cfg, attr, cstorage, nStorage, nCaches, data, hits, misses,
                   counters_enabled, ctx_saved, lockOwner, nops, lastEvent>>

\* The operation without a cache is over.
direct_return(t) ==
    /\ loc[t].pc \in {"direct_return", "direct_raise", "accessor_error"}
    /\ loc' = [loc EXCEPT ![t] = Idle]
    /\ UNCHANGED <<dvars, cfg, attr, cstorage, nStorage, nCaches, data, hits, misses,
                   counters_enabled, ctx_saved, lockOwner, nops, lastEvent>>

\* ---------------------------------------------------------------- lookup
\* CountersContext: entered with its enable flag at its default; on exit it
\* puts back the switch it saved.
ctx_enable == TRUE
ctx_exit(saved) == saved

\* `k = key(*args, **kwargs)` raises: the error leaves the wrapper before the
\* with statement is reached.
key_error(t) ==
    /\ loc[t].pc = "lookup_enter"
    /\ loc[t].k = KeyRaises
    /\ loc' = [loc EXCEPT ![t].pc = "propagate", ![t].exc = "TypeError"]
    /\ UNCHANGED <<dvars, cfg, attr, cstorage, nStorage, nCaches, data, hits, misses,
                   counters_enabled, ctx_saved, lockOwner, nops, lastEvent>>

\* `with lock, cache.counters:` entered: the lock is taken, then the counters
\* context saves the switch and turns automatic counting on.
lookup_enter(t) ==
    LET c == loc[t].c IN
    /\ loc[t].pc = "lookup_enter"
    /\ loc[t].k # KeyRaises
    /\ LockFree(lock_of(t), t)
    /\ lockOwner' = Acquire(lock_of(t), t)
    /\ ctx_saved' = [ctx_saved EXCEPT ![c] = counters_enabled[c]]
    /\ counters_enabled' = [counters_enabled EXCEPT ![c] = ctx_enable]
    /\ loc' = [loc EXCEPT ![t].pc = "lookup_get",
                          ![t].entered = counters_enabled[c]]
    /\ UNCHANGED <<dvars, cfg, attr, cstorage, nStorage, nCaches, data, hits, misses,
                   nops, lastEvent>>

\* v = cache[k]: hit = True, or KeyError and hit = False.
lookup_get(t) ==
    LET c == loc[t].c
        r == CacheMixin_getitem(counters_enabled[c], data[c], loc[t].k)
    IN
    /\ loc[t].pc = "lookup_get"
    /\ hits' = [hits EXCEPT ![c] = @ + r.dhits]
    /\ misses' = [misses EXCEPT ![c] = @ + r.dmisses]
    /\ loc' = [loc EXCEPT ![t].hit = r.found, ![t].v = r.v, ![t].exc = r.err,
                          ![t].seen = IF loc[t].k \in Keys
                                      THEN lastEvent[c][loc[t].k] ELSE NoEvent,
                          ![t].pc = "lookup_exit"]
    /\ UNCHANGED <<dvars, cfg, attr, cstorage, nStorage, nCaches, data,
                   counters_enabled, ctx_saved, lockOwner, nops, lastEvent>>

\* Mutant of after_lookup: a hit stores the value it found once more.
after_lookup_store_again(hit) == IF hit THEN "store_enter" ELSE "call"

\* Mutant of after_lookup: the hit is ignored and the callable runs anyway.
after_lookup_recompute(hit) == "call"

\* Where the wrapper goes after the lookup: straight to the result on a hit,
\* to the original callable on a miss.
after_lookup(hit) == IF hit THEN "return" ELSE "call"

\* Mutant of with_exit: an exception inside the with statement leaves it
\* without releasing the lock.
with_exit_leaks_on_error(l, t, exc) == IF exc # "-" THEN lockOwner ELSE Release(l, t)

\* The lock's __exit__: it runs however the with statement is left.
with_exit(l, t, exc) == Release(l, t)

\* The with statement is left: the counters context restores the switch, the
\* lock is released.  An error of the container that is not a KeyError goes
\* on to the caller.
lookup_exit(t) ==
    LET c == loc[t].c IN
    /\ loc[t].pc = "lookup_exit"
    /\ counters_enabled' = [counters_enabled EXCEPT ![c] = ctx_exit(ctx_saved[c])]
    /\ lockOwner' = with_exit(lock_of(t), t, loc[t].exc)
    /\ loc' = [loc EXCEPT ![t].pc = IF loc[t].exc # "-" THEN "propagate"
                                    ELSE after_lookup(loc[t].hit),
                          ![t].entered = FALSE]
    /\ UNCHANGED <<dvars, cfg, attr, cstorage, nStorage, nCaches, data, hits, misses,
                   ctx_saved, nops, lastEvent>>


\* ---------------------------------------------------- the original callable
\* Mutant of is_cacheable: every exception is caught and cached.
is_cacheable_any(e) == TRUE

\* `except exceptions as e`: whether a raised exception is one to cache.
is_cacheable(e) == e \in exceptions

\* What the callable's outcome makes of the call: a value or a declared
\* exception is the computed value, to be stored; any other exception leaves
\* the wrapper at once.
after_call(outcome) ==
    IF outcome.tag = "val" THEN [pc |-> "store_enter", v |-> outcome, exc |-> "-"]
    ELSE IF is_cacheable(outcome.e)
         THEN [pc |-> "store_enter", v |-> CachedException(outcome.e), exc |-> "-"]
         ELSE [pc |-> "propagate", v |-> NoValue, exc |-> outcome.e]

\* History: a note on a key that has no entry (it stays without one).
NoteAbsent(ev, kind) == IF ev.kind \in AbsentKinds THEN Event(kind, NoValue) ELSE ev

\* v = call(*args, **kwargs), run with no lock held.  The callable is any
\* callable: it returns some value or raises some exception.
call_original(t) ==
    LET c == loc[t].c
        k == loc[t].k
    IN
    /\ loc[t].pc = "call"
    /\ \E outcome \in Values \cup {CachedException(e) : e \in Raisable} :
         LET a == after_call(outcome) IN
         /\ loc' = [loc EXCEPT ![t].pc = a.pc, ![t].v = a.v, ![t].exc = a.exc,
                               ![t].invoked = @ + 1]
         /\ lastEvent' = IF a.pc = "propagate"
                         THEN [lastEvent EXCEPT ![c][k] = NoteAbsent(@, "raised")]
                         ELSE lastEvent
    /\ UNCHANGED <<dvars, cfg, attr, cstorage, nStorage, nCaches, data, hits, misses,
                   counters_enabled, ctx_saved, lockOwner, nops>>

\* ----------------------------------------------------------------- store
\* `with lock:` entered for the store.
store_enter(t) ==
    LET c == loc[t].c IN
    /\ loc[t].pc = "store_enter"
    /\ LockFree(lock_of(t), t)
    /\ lockOwner' = Acquire(lock_of(t), t)
    /\ loc' = [loc EXCEPT ![t].pc = "store_set"]
    /\ UNCHANGED <<dvars, cfg, attr, cstorage, nStorage, nCaches, data, hits, misses,
                   counters_enabled, ctx_saved, nops, lastEvent>>

\* The container's pop(key) reads self[key]: CacheMixin.__getitem__ counts
\* each as a hit when automatic counting is on at that moment.
popped_hits(enabled, popped) == IF enabled THEN popped ELSE 0

\* Mutant of store_item: an entry already there is kept (setdefault).
store_item_setdefault(d, k, v) ==
    IF k \in DOMAIN d THEN {[rejected |-> FALSE, d |-> d, popped |-> 0]}
    ELSE Cache_setitem(d, k, v)

\* `cache[k] = v`: the container's outcomes.
store_item(d, k, v) == Cache_setitem(d, k, v)

\* Mutant of after_store: the container's ValueError reaches the caller.
after_store_reraise(rejected) ==
    IF rejected THEN [pc |-> "propagate", exc |-> "ValueError"]
    ELSE [pc |-> "return", exc |-> "-"]

\* `except ValueError: pass`: a rejected store is not an error of the call.
after_store(rejected) == [pc |-> "return", exc |-> "-"]

\* History of the keys of cache c after the store of (k, v) by operation id.
AfterStore(evs, old, new, k, v, rejected) ==
    [j \in Keys |->
        IF rejected THEN (IF j = k THEN NoteAbsent(evs[j], "rejected") ELSE evs[j])
        ELSE IF j = k THEN Event("store", v)
        ELSE IF j \in (DOMAIN old) \ (DOMAIN new) THEN Event("none", NoValue)
        ELSE evs[j]]

\* cache[k] = v under the lock, ValueError swallowed; the lock is released.
store_set(t) ==
    LET c == loc[t].c
        k == loc[t].k
    IN
    /\ loc[t].pc = "store_set"
    /\ \E r \in store_item(data[c], k, loc[t].v) :
         LET new == r.d
             a == after_store(r.rejected)
         IN
         /\ data' = [data EXCEPT ![c] = new]
         /\ hits' = [hits EXCEPT ![c] = @ + popped_hits(counters_enabled[c], r.popped)]
         /\ lastEvent' = [lastEvent EXCEPT ![c] =
                            AfterStore(@, data[c], new, k, loc[t].v, r.rejected)]
         /\ loc' = [loc EXCEPT ![t].st = IF r.rejected THEN "rejected" ELSE "stored",
                               ![t].pc = a.pc, ![t].exc = a.exc]
         /\ lockOwner' = with_exit(lock_of(t), t,
                                   IF r.rejected THEN "ValueError" ELSE "-")
    /\ UNCHANGED <<dvars, cfg, attr, cstorage, nStorage, nCaches, misses,
                   counters_enabled, ctx_saved, nops>>

\* Mutant of result_of: the wrapped exception is returned, not raised.
result_of_returns_wrapper(v) == Returned(v)

\* `if isinstance(v, CachedException): raise v.exception` / `return v`.
result_of(v) == IF isCachedException(v) THEN Raised(v.e) ELSE Returned(v)

\* The call is over: result_of(v) went to the caller, or the undeclared
\* exception did.
wrapper_return(t) ==
    /\ loc[t].pc \in {"return", "propagate"}
    /\ loc' = [loc EXCEPT ![t] = Idle]
    /\ UNCHANGED <<dvars, cfg, attr, cstorage, nStorage, nCaches, data, hits, misses,
                   counters_enabled, ctx_saved, lockOwner, nops, lastEvent>>

\* ----------------------------------------------------------- cache_clear
clear_enter(t) ==
    LET c == loc[t].c IN
    /\ loc[t].pc = "clear_enter"
    /\ LockFree(lock_of(t), t)
    /\ lockOwner' = Acquire(lock_of(t), t)
    /\ loc' = [loc EXCEPT ![t].pc = "clear_do"]
    /\ UNCHANGED <<dvars, cfg, attr, cstorage, nStorage, nCaches, data, hits, misses,
                   counters_enabled, ctx_saved, nops, lastEvent>>

\* The container's clear(): popitem() until empty, each pop reading self[key].
Cache_clear(d, enabled, h) ==
    [d |-> EmptyData, hits |-> h + popped_hits(enabled, Cardinality(DOMAIN d))]

\* Mutant of CacheMixin_clear: the counters are not reset.
CacheMixin_clear_keeps_counters(d, enabled, h, m) ==
    LET r == Cache_clear(d, enabled, h)
    IN [d |-> r.d, hits |-> r.hits, misses |-> m]

\* CacheMixin.clear: the container's clear(), then counters_reset().
CacheMixin_clear(d, enabled, h, m) ==
    LET r == Cache_clear(d, enabled, h)
    IN [d |-> r.d, hits |-> 0, misses |-> 0]

\* History of the keys of a cache after its clear: what each one held.
AfterClear(old) ==
    [k \in Keys |-> Event("clear", IF k \in DOMAIN old THEN old[k] ELSE NoValue)]

\* CacheMixin.info: the CacheInfo tuple.
cache_info(h, m, d) == [hits |-> h, misses |-> m, maxsize |-> maxsize, currsize |-> currsize(d)]

\* cache.clear() under the lock; the lock is released.
clear_do(t) ==
    LET c == loc[t].c
        r == CacheMixin_clear(data[c], counters_enabled[c], hits[c], misses[c])
    IN
    /\ loc[t].pc = "clear_do"
    /\ data' = [data EXCEPT ![c] = r.d]
    /\ hits' = [hits EXCEPT ![c] = r.hits]
    /\ misses' = [misses EXCEPT ![c] = r.misses]
    /\ lastEvent' = [lastEvent EXCEPT ![c] = AfterClear(data[c])]
    /\ lockOwner' = with_exit(lock_of(t), t, "-")
    /\ loc' = [loc EXCEPT ![t] = Idle]
    /\ UNCHANGED <<dvars, cfg, attr, cstorage, nStorage, nCaches,
                   counters_enabled, ctx_saved, nops>>

\* ------------------------------------------------------------ cache_info
info_enter(t) ==
    /\ loc[t].pc = "info_enter"
    /\ LockFree(lock_of(t), t)
    /\ lockOwner' = Acquire(lock_of(t), t)
    /\ loc' = [loc EXCEPT ![t].pc = "info_do"]
    /\ UNCHANGED <<dvars, cfg, attr, cstorage, nStorage, nCaches, data, hits, misses,
                   counters_enabled, ctx_saved, nops, lastEvent>>

\* `return cache.info` under the lock; the lock is released.
info_do(t) ==
    LET c == loc[t].c IN
    /\ loc[t].pc = "info_do"
    /\ loc' = [loc EXCEPT ![t].info = cache_info(hits[c], misses[c], data[c]),
                          ![t].pc = "info_return"]
    /\ lockOwner' = with_exit(lock_of(t), t, "-")
    /\ UNCHANGED <<dvars, cfg, attr, cstorage, nStorage, nCaches, data, hits, misses,
                   counters_enabled, ctx_saved, nops, lastEvent>>

\* The CacheInfo went to the caller.
info_return(t) ==
    /\ loc[t].pc = "info_return"
    /\ loc' = [loc EXCEPT ![t] = Idle]
    /\ UNCHANGED <<dvars, cfg, attr, cstorage, nStorage, nCaches, data, hits, misses,
                   counters_enabled, ctx_saved, lockOwner, nops, lastEvent>>

\* ---------------------------------------------------------- specification
Next ==
    \E t \in Threads :
        \/ Begin(t)
        \/ gc_getattr(t)
        \/ gc_setattr(t)
        \/ gc_getitem(t)
        \/ gc_clone(t)
        \/ gc_shared(t)
        \/ call_direct(t)
        \/ direct_return(t)
        \/ lookup_enter(t)
        \/ lookup_get(t)
        \/ lookup_exit(t)
        \/ call_original(t)
        \/ store_enter(t)
        \/ store_set(t)
        \/ wrapper_return(t)
        \/ clear_enter(t)
        \/ clear_do(t)

Spec == Init /\ [][Next]_vars

\* --------------------------------------- every operation, under every lock
\* The decorations of a function or method with each kind of lock parameter.
LockConfigs == {[mode |-> "single", nolock |-> FALSE, lock |-> "none"],
                [mode |-> "single", nolock |-> TRUE, lock |-> "none"],
                [mode |-> "single", nolock |-> TRUE, lock |-> "instance"],
                [mode |-> "perobj", nolock |-> FALSE, lock |-> "none"],
                [mode |-> "perobj", nolock |-> FALSE, lock |-> "accessor"]}

LockInit ==
    /\ cfg \in LockConfigs
    /\ CallIdle
    /\ DecoIdle

Operations == {"call", "cache_clear", "cache_info"}
\* What a call is made with: arguments of one key, arguments the key function
\* raises on, arguments whose key cannot be hashed.
CallKeys == {"k1", KeyRaises, UnhashableKey}

\* cache_accessor(obj_self, obj_other): `if obj_other: obj_self = obj_other`.
cache_accessor_obj(obj_self, obj_other) ==
    IF obj_other # NoObj THEN obj_other ELSE obj_self

\* A thread starts wrapper(obj, k), or cache_clear or cache_info bound to
\* obj_self and called with or without another receiver.  The cache is the
\* one of cache_accessor's receiver; the lock is get_altlock(obj_self).
Start(t) ==
    /\ loc[t].pc = "idle"
    /\ nops < MaxMethodOps
    /\ \E op \in Operations, obj_self \in Receivers :
         \E obj_other \in (IF op = "call" \/ cfg.mode # "perobj" THEN {NoObj}
                           ELSE Objs \cup {NoObj}),
            k \in (IF op = "call" THEN CallKeys ELSE {NoKey}) :
           loc' = [loc EXCEPT ![t] =
                     [Idle EXCEPT !.op = op, !.k = k,
                                  !.obj = cache_accessor_obj(obj_self, obj_other),
                                  !.lockobj = obj_self,
                                  !.pc = IF cfg.mode = "perobj" THEN "gc_getattr"
                                         ELSE AfterResolve(op),
                                  !.c = IF cfg.mode = "single" THEN 0 ELSE NoCache]]
    /\ nops' = nops + 1
    /\ UNCHANGED <<dvars, cfg, attr, cstorage, nStorage, nCaches, data, hits, misses,
                   counters_enabled, ctx_saved, lockOwner, lastEvent>>

LockNext ==
    \E t \in Threads :
    \/ Start(t)
    \/ gc_getattr(t)
    \/ gc_setattr(t)
    \/ gc_getitem(t)
    \/ gc_clone(t)
    \/ key_error(t)
    \/ lookup_enter(t)
    \/ lookup_get(t)
    \/ lookup_exit(t)
    \/ call_original(t)
    \/ store_enter(t)
    \/ store_set(t)
    \/ wrapper_return(t)
    \/ clear_enter(t)
    \/ clear_do(t)
    \/ info_enter(t)
    \/ info_do(t)
    \/ info_return(t)

LockSpec == LockInit /\ [][LockNext]_vars

\* The decorations with a function owned cache: one cache for every call.
FairInit ==
    /\ cfg \in {c \in LockConfigs : c.mode = "single"}
    /\ CallIdle
    /\ DecoIdle

\* A thread inside the wrapper or an accessor goes on running: every step
\* but the start of an operation, which is the caller's to make, and the
\* original callable, which may run for ever.
Progress(t) ==
    \/ key_error(t)
    \/ lookup_enter(t)
    \/ lookup_get(t)
    \/ lookup_exit(t)
    \/ store_enter(t)
    \/ store_set(t)
    \/ wrapper_return(t)
    \/ clear_enter(t)
    \/ clear_do(t)
    \/ info_enter(t)
    \/ info_do(t)
    \/ info_return(t)

FairNext == \E t \in Threads : Start(t) \/ call_original(t) \/ Progress(t)

FairLockSpec ==
    FairInit /\ [][FairNext]_vars /\ \A t \in Threads : WF_vars(Progress(t))


\* ============================================================ decoration
\* decorator(func): the decorator's parameters, held in config, are applied
\* to a callable.
\*
\* The callable: what it is, and the name of its first declared parameter
\* ("self": one of the conventional receiver names; "none": no parameter).
Funcs ==
    {[kind |-> "function", first |-> f] : f \in {"self", "other", "none"}}
    \cup {[kind |-> "boundmethod", first |-> f] : f \in {"self", "other"}}
    \cup {[kind |-> k, first |-> "none"] :
             k \in {"classmethod", "staticmethod", "notcallable"}}
\* The _transformer the decorator node was built with.
Transformers == {"none", "classmethod", "property"}

\* A parameter that may hold an accessor function: not given, a value that
\* is not callable (shared = True, a lock instance, stateful = True), or a
\* function: plain or wrapped as classmethod or staticmethod, with the
\* number of positional arguments has_args counts (2: two or more).
NoOption == [opt |-> "none", wrap |-> "-", nargs |-> 0]
Flag == [opt |-> "flag", wrap |-> "-", nargs |-> 0]
Accessor(w, n) == [opt |-> "acc", wrap |-> w, nargs |-> n]
Accessors ==
    {Accessor("plain", n) : n \in 0..2}
    \cup {Accessor(w, n) : w \in {"classmethod", "staticmethod"}, n \in 0..1}
StateGetters == {Accessor("plain", n) : n \in 0..1}
KeyOptions == {"none", "hashkey", "typedkey", "custom"}

\* DecoratorHelper.is_callable, on a parameter.
is_callable(p) == p.opt = "acc"

FuncError(e) ==
    [err |-> e, isboundmethod |-> FALSE, isclassmethod |-> FALSE,
     isunboundmethod |-> FALSE]

\* Mutant of FunctionDefinition: a staticmethod object is taken as the
\* function it wraps.
FunctionDefinition_takes_staticmethod(func, transformer) ==
    IF func.kind = "classmethod" THEN FuncError("ValueError")
    ELSE IF func.kind = "notcallable" THEN FuncError("TypeError")
    ELSE [err |-> "-", isboundmethod |-> func.kind = "boundmethod",
          isclassmethod |-> transformer = "classmethod",
          isunboundmethod |-> func.first = "self"]

\* FunctionDefinition.__init__: the characterization of the callable, or the
\* error it raises.  arg_self is the first parameter's name when the
\* transformer is the classmethod one or property, or when the name is a
\* conventional receiver name; isunboundmethod = bool(arg_self).
FunctionDefinition(func, transformer) ==
    IF func.kind = "classmethod" THEN FuncError("ValueError")
    ELSE IF func.kind = "staticmethod" THEN FuncError("ValueError")
    ELSE IF func.kind = "notcallable" THEN FuncError("TypeError")
    ELSE [err |-> "-",
          isboundmethod |-> func.kind = "boundmethod",
          isclassmethod |-> transformer = "classmethod",
          isunboundmethod |->
              IF func.first = "none" THEN FALSE
              ELSE IF transformer \in {"classmethod", "property"} THEN TRUE
              ELSE func.first = "self"]

\* The cached callable is a bound or unbound method.
ismethod(funcdef) == funcdef.isboundmethod \/ funcdef.isunboundmethod

\* Mutant of check_accessor_allowed: the check passes for any callable.
check_accessor_allowed_always(funcdef) == "-"

\* check_accessor_allowed: the error an accessor with an object argument
\* raises for this callable, "-" for none.
check_accessor_allowed(funcdef) == IF ismethod(funcdef) THEN "-" ELSE "ValueError"

NoAccessor == [err |-> "-", is_dependent |-> FALSE, passes |-> "-"]

\* get_accessor: whether the accessor depends on the receiver, what
\* get_resource passes to it, and the error check_accessor_allowed raised.
get_accessor(acc, funcdef) ==
    IF acc.wrap = "classmethod"
    THEN [err |-> check_accessor_allowed(funcdef), is_dependent |-> TRUE,
          passes |-> IF acc.nargs > 0 THEN "class, funcname" ELSE "class"]
    ELSE IF acc.nargs > 0
    THEN [err |-> check_accessor_allowed(funcdef), is_dependent |-> TRUE,
          passes |-> IF acc.nargs > 1 THEN "receiver, funcname" ELSE "receiver"]
    ELSE [err |-> "-", is_dependent |-> FALSE, passes |-> "nothing"]

\* Mutant of CacheBindingMode: a truthy shared parameter is not looked at.
CacheBindingMode_ignores_shared_flag(shared, funcdef) ==
    IF is_callable(shared) THEN "ExternalAccessor"
    ELSE IF funcdef.isunboundmethod /\ ~funcdef.isclassmethod THEN "PerReceiverClone"
    ELSE "SingleInstance"

\* The cache accessors the decorator creates: which cache backs a call.
CacheBindingMode(shared, funcdef) ==
    IF is_callable(shared) THEN "ExternalAccessor"
    ELSE IF shared.opt = "none" /\ funcdef.isunboundmethod /\ ~funcdef.isclassmethod
    THEN "PerReceiverClone"
    ELSE "SingleInstance"

\* CacheKeyHelper.get_typed_from_key: the typed value of a recognized key
\* function, "none" for any other.
get_typed_from_key(key) ==
    IF key = "typedkey" THEN "true" ELSE IF key = "hashkey" THEN "false" ELSE "none"

\* Mutant of key_function: the typed parameter prevails over a standard key
\* function given as key.
key_function_typed_prevails(key, typed) ==
    IF key # "none" /\ get_typed_from_key(key) = "none" THEN "custom"
    ELSE IF typed THEN "typedkey" ELSE "hashkey"

\* Mutant of key_function: the typed parameter does not count.
key_function_ignores_typed(key, typed) ==
    IF key # "none" /\ get_typed_from_key(key) = "none" THEN "custom"
    ELSE IF key # "none" THEN key
    ELSE "hashkey"

\* make_key_func, the key function: the function given as key when it is
\* not a recognized one, else the standard one of the effective typed.
key_function(key, typed) ==
    IF key # "none" /\ get_typed_from_key(key) = "none" THEN "custom"
    ELSE IF key # "none" THEN key
    ELSE IF typed THEN "typedkey" ELSE "hashkey"

\* Mutant of key_wrapper: stateful is honoured whatever the callable is.
key_wrapper_stateful_anywhere(funcdef, stateful) ==
    IF stateful.opt # "none"
    THEN [err |-> IF is_callable(stateful) /\ stateful.nargs = 0
                  THEN "ValueError" ELSE "-",
          receiver |-> "state",
          getstate |-> IF is_callable(stateful) THEN "given" ELSE "get_obj_state"]
    ELSE [err |-> "-", receiver |-> IF ismethod(funcdef) THEN "strip" ELSE "none",
          getstate |-> "-"]

\* make_key_func, the key wrapper: what key_func does with the receiver
\* argument (none to take, stripped, replaced by the object state) and how
\* it gets the state; the error raised for a state getter without argument.
key_wrapper(funcdef, stateful) ==
    IF ismethod(funcdef)
    THEN IF stateful.opt # "none"
         THEN [err |-> IF is_callable(stateful) /\ stateful.nargs = 0
                       THEN "ValueError" ELSE "-",
               receiver |-> "state",
               getstate |-> IF is_callable(stateful) THEN "given" ELSE "get_obj_state"]
         ELSE [err |-> "-", receiver |-> "strip", getstate |-> "-"]
    ELSE [err |-> "-", receiver |-> "none", getstate |-> "-"]

\* The parameters left out of cache_configuration() for this decoration.
config_irrelevant(c, funcdef) ==
    {"_transformer"}
    \cup (IF c.key # "none" THEN {"typed"} ELSE {"key"})
    \cup (IF ismethod(funcdef) THEN {} ELSE {"stateful"})
    \cup (IF is_callable(c.shared) THEN {"cache"} ELSE {})
    \cup (IF CacheBindingMode(c.shared, funcdef) = "SingleInstance"
             /\ ~funcdef.isunboundmethod THEN {"shared"} ELSE {})
    \cup (IF c.lock.opt = "none" THEN {"lock"} ELSE {})

\* The outcome of decorator(func).
Pending ==
    [status |-> "pending", err |-> "-", stage |-> "-", mode |-> "-", keyfn |-> "-",
     receiver |-> "-", getstate |-> "-", shared_passes |-> "-", lock_passes |-> "-",
     irrelevant |-> {}]
Failed(stage, e) == [Pending EXCEPT !.status = "error", !.stage = stage, !.err = e]

\* decorator(func), in the order of its statements: the characterization of
\* the callable, the shared cache accessor, the key function, the lock
\* accessor; the first error ends the decoration.
decorator(c) ==
    LET funcdef == FunctionDefinition(c.func, c.transformer)
        shared == IF is_callable(c.shared) THEN get_accessor(c.shared, funcdef)
                  ELSE NoAccessor
        key == key_wrapper(funcdef, c.stateful)
        lock == IF is_callable(c.lock) THEN get_accessor(c.lock, funcdef)
                ELSE NoAccessor
    IN IF funcdef.err # "-" THEN Failed("funcdef", funcdef.err)
       ELSE IF shared.err # "-" THEN Failed("shared", shared.err)
       ELSE IF key.err # "-" THEN Failed("key", key.err)
       ELSE IF lock.err # "-" THEN Failed("lock", lock.err)
       ELSE [status |-> "ok", err |-> "-", stage |-> "-",
             mode |-> CacheBindingMode(c.shared, funcdef),
             keyfn |-> key_function(c.key, c.typed),
             receiver |-> key.receiver, getstate |-> key.getstate,
             shared_passes |-> shared.passes, lock_passes |-> lock.passes,
             irrelevant |-> config_irrelevant(c, funcdef)]

\* ------------------------------------------------ accessors at call time
\* The name of the decorated function, and what a call may pass first: an
\* instance of the owning class or the class itself.
funcname == "f"
Instance(k) == [kind |-> "instance", cls |-> k]
Class(k) == [kind |-> "class", cls |-> k]
RecvVals == {Instance("A"), Class("A")}
\* The positional arguments of a call, as far as an accessor looks at them.
CallArgs == {<<>>} \cup {<<r>> : r \in RecvVals}

\* get_self(*args): args[0], or TypeError without arguments.
get_self(args) == IF args = <<>> THEN "TypeError" ELSE "-"

Resource(e, bound, received) == [err |-> e, bound |-> bound, received |-> received]
NotBound == "-"

\* Mutant of get_resource: a classmethod accessor is bound to what the call
\* came through, instance or class.
get_resource_bound_to_receiver(acc, args) ==
    IF acc.wrap = "classmethod"
    THEN IF get_self(args) # "-" THEN Resource(get_self(args), NotBound, <<>>)
         ELSE Resource("-", args[1], IF acc.nargs > 0 THEN <<funcname>> ELSE <<>>)
    ELSE IF acc.nargs > 0
    THEN IF get_self(args) # "-" THEN Resource(get_self(args), NotBound, <<>>)
         ELSE Resource("-", NotBound,
                       IF acc.nargs > 1 THEN <<args[1], funcname>> ELSE <<args[1]>>)
    ELSE Resource("-", NotBound, <<>>)

\* get_resource(*args) as get_accessor builds it: what the accessor function
\* is bound to and the arguments it receives.  accessor_func.__get__(None,
\* obj) binds a classmethod to the class obj, accessor_func.__get__(obj,
\* None) to the class of the instance obj.
get_resource(acc, args) ==
    IF acc.wrap = "classmethod"
    THEN IF get_self(args) # "-" THEN Resource(get_self(args), NotBound, <<>>)
         ELSE Resource("-", Class(args[1].cls),
                       IF acc.nargs > 0 THEN <<funcname>> ELSE <<>>)
    ELSE IF acc.nargs > 0
    THEN IF get_self(args) # "-" THEN Resource(get_self(args), NotBound, <<>>)
         ELSE Resource("-", NotBound,
                       IF acc.nargs > 1 THEN <<args[1], funcname>> ELSE <<args[1]>>)
    ELSE Resource("-", NotBound, <<>>)

\* Every combination of callable and parameters.
DecoConfigs ==
    [func : Funcs, transformer : Transformers,
     shared : {NoOption, Flag} \cup Accessors,
     lock : {NoOption, Flag} \cup Accessors,
     stateful : {NoOption, Flag} \cup StateGetters,
     key : KeyOptions, typed : BOOLEAN]

NoResolve ==
    [op |-> "none", which |-> "-", args |-> <<>>, err |-> "-", bound |-> NotBound,
     received |-> <<>>]

DecoInit ==
    /\ config \in DecoConfigs
    /\ decorated = Pending
    /\ objstate = Unused /\ kcache = Unused /\ lastop = NoResolve /\ prevop = Unused
    /\ ncalls = 0
    /\ cfg = Unused
    /\ CallIdle

\* decorated = decorator(func).
Decorate ==
    /\ decorated.status = "pending"
    /\ decorated' = decorator(config)
    /\ UNCHANGED <<cvars, config, objstate, kcache, lastop, prevop, ncalls>>

\* A call of the decorated callable resolves the shared cache or the lock
\* through the accessor given for it.
Resolve(which, args) ==
    /\ decorated.status = "ok"
    /\ ncalls < MaxCalls
    /\ is_callable(config[which])
    /\ LET r == get_resource(config[which], args)
       IN lastop' = [op |-> "get_resource", which |-> which, args |-> args,
                     err |-> r.err, bound |-> r.bound, received |-> r.received]
    /\ ncalls' = ncalls + 1
    /\ UNCHANGED <<cvars, config, decorated, objstate, kcache, prevop>>

DecoNext ==
    \/ Decorate
    \/ \E which \in {"shared", "lock"}, args \in CallArgs : Resolve(which, args)

DecoSpec == DecoInit /\ [][DecoNext]_vars


\* ======================================================== key derivation
\* Python values, as far as key derivation tells them apart: t is the type,
\* n the number of a number, k the key under which the value is an item of
\* a mapping, items the items of a list, tuple or mapping (a mapping's in
\* insertion order).
Atom(t, n) == [t |-> t, n |-> n, k |-> "", items |-> <<>>]
PyInt(n) == Atom("int", n)
PyFloat(n) == Atom("float", n)
\* An object that is neither mapping nor iterable and has no __hash__.
Unhashable == Atom("unhashable", 0)
NoPy == Atom("-", 0)
Entry(k, v) == [v EXCEPT !.k = k]
List(s) == [t |-> "list", n |-> 0, k |-> "", items |-> s]
Tuple(s) == [t |-> "tuple", n |-> 0, k |-> "", items |-> s]
Dict(s) == [t |-> "dict", n |-> 0, k |-> "", items |-> s]
\* type(v), as typedkey adds it to the key.
TypeOf(v) == [t |-> "type", n |-> 0, k |-> v.t, items |-> <<>>]

\* isinstance(obj, Mapping); isinstance(obj, Iterable) and not an instance
\* of hashable_scalar_iterables (str, bytes).
isMapping(v) == v.t \in {"dict", "hdict"}
isNonScalarIterable(v) == v.t \in {"list", "tuple", "dict", "hdict"}

\* _hashabledict(items): a dict with a hash.
hashabledict(v, items) == [t |-> "hdict", n |-> 0, k |-> v.k, items |-> items]

\* CacheKeyHelper.make_obj_hashable (with make_items_hashable on the items):
\* a cache instance and a scalar are left as they are, a mapping becomes a
\* hashable dict and any other iterable a tuple, of items made hashable.
RECURSIVE make_obj_hashable(_)
make_obj_hashable(obj) ==
    IF obj.t = "cache" THEN obj
    ELSE IF isMapping(obj)
    THEN hashabledict(obj, [i \in DOMAIN obj.items |-> make_obj_hashable(obj.items[i])])
    ELSE IF isNonScalarIterable(obj)
    THEN [t |-> "tuple", n |-> 0, k |-> obj.k,
          items |-> [i \in DOMAIN obj.items |-> make_obj_hashable(obj.items[i])]]
    ELSE obj

\* make_items_hashable on the argument tuple: each argument made hashable.
make_items_hashable(args) == [i \in DOMAIN args |-> make_obj_hashable(args[i])]

\* hash(v) succeeds: no list, dict or object without __hash__ in it.
RECURSIVE isHashable(_)
isHashable(v) ==
    /\ v.t \notin {"unhashable", "list", "dict"}
    /\ \A i \in DOMAIN v.items : isHashable(v.items[i])

\* a == b in Python: numbers by value whatever their type, tuples item by
\* item, dicts as sets of items.
RECURSIVE PyEq(_, _)
PyEq(a, b) ==
    IF a.t \in {"int", "float"} /\ b.t \in {"int", "float"}
    THEN a.n = b.n /\ a.k = b.k
    ELSE IF a.t = "tuple" /\ b.t = "tuple"
    THEN /\ a.k = b.k /\ Len(a.items) = Len(b.items)
         /\ \A i \in DOMAIN a.items : PyEq(a.items[i], b.items[i])
    ELSE IF isMapping(a) /\ isMapping(b)
    THEN /\ a.k = b.k /\ Len(a.items) = Len(b.items)
         /\ \A i \in DOMAIN a.items : \E j \in DOMAIN b.items :
               PyEq(a.items[i], b.items[j])
    ELSE a = b

\* hash(v) of a hashable value: equal numbers hash alike, a tuple hashes
\* its items in order, _hashabledict hashes frozenset(self.items()).
RECURSIVE PyHash(_)
PyHash(v) ==
    IF v.t \in {"int", "float"} THEN [h |-> "number", n |-> v.n, k |-> v.k, parts |-> {}]
    ELSE IF v.t = "tuple"
    THEN [h |-> "tuple", n |-> 0, k |-> v.k,
          parts |-> {[i |-> i, of |-> PyHash(v.items[i])] : i \in DOMAIN v.items}]
    ELSE IF v.t = "hdict"
    THEN [h |-> "frozenset", n |-> 0, k |-> v.k,
          parts |-> {[i |-> 0, of |-> PyHash(v.items[i])] : i \in DOMAIN v.items}]
    ELSE [h |-> v.t, n |-> v.n, k |-> v.k, parts |-> {}]

\* The name of the attribute that holds a receiver's per-instance caches.
attr_cache_name == "_cache"

\* obj.__dict__ of a receiver: its attribute x and, once a per-instance
\* cache was made for it, the attribute that holds its caches.
obj_dict(o) ==
    Dict(<<Entry("x", PyInt(o.x))>>
         \o (IF o.storage THEN <<Entry(attr_cache_name, Atom("storage", 0))>> ELSE <<>>))

\* CacheKeyHelper.is_allowed_in_state: no magic attribute, no descriptor, no
\* cache instance.
is_allowed_in_state(v) == v.k \notin {"__magic__"} /\ v.t \notin {"descriptor", "cache"}

\* Mutant of get_obj_state: the attribute holding the caches stays in.
get_obj_state_keeps_caches(o) ==
    Dict(SelectSeq(obj_dict(o).items, LAMBDA e : is_allowed_in_state(e)))

\* CacheKeyHelper.get_obj_state for an object with a __dict__ and no
\* __getstate__: its attributes without the one holding the caches, those
\* allowed in the state.
get_obj_state(o) ==
    Dict(SelectSeq(obj_dict(o).items,
                   LAMBDA e : e.k # attr_cache_name /\ is_allowed_in_state(e)))

\* A state getter given as stateful: here `lambda obj: obj.x`.
given_state(o) == PyInt(o.x)

\* The standard key functions of the container library: the tuple of the
\* arguments, with their types appended by typedkey; a value that cannot be
\* hashed makes the derivation fail.
standard_key(keyfn, args) ==
    [err |-> IF \A i \in DOMAIN args : isHashable(args[i]) THEN "-" ELSE "TypeError",
     key |-> Tuple(args \o (IF keyfn = "typedkey"
                            THEN [i \in DOMAIN args |-> TypeOf(args[i])] ELSE <<>>))]

\* A key function of the user's: here `lambda *args: args`.
custom_key(args) == [err |-> "-", key |-> Tuple(args)]

\* Mutant of key_inputs: the receiver of a method stays among the key
\* inputs, as the attributes it has.
key_inputs_with_receiver(d, o, arg) ==
    IF d.receiver = "none" THEN <<arg>>
    ELSE IF d.receiver = "strip" THEN <<obj_dict(o), arg>>
    ELSE <<(IF d.getstate = "given" THEN given_state(o) ELSE get_obj_state(o)), arg>>

\* Mutant of key_inputs: a stateful method's receiver is stripped like any
\* other.
key_inputs_without_state(d, o, arg) == <<arg>>

\* key_func, what it hands to make_items_hashable: the arguments, without
\* the receiver of a method, with the object state in its place if stateful.
key_inputs(d, o, arg) ==
    IF d.receiver = "state"
    THEN <<(IF d.getstate = "given" THEN given_state(o) ELSE get_obj_state(o)), arg>>
    ELSE <<arg>>

\* Mutant of key_func: a key function of the user's gets the arguments as
\* they were passed.
key_func_custom_gets_raw(d, o, arg) ==
    LET raw == IF d.receiver = "none" THEN <<arg>> ELSE <<obj_dict(o), arg>>
        args == make_items_hashable(key_inputs(d, o, arg))
        r == IF d.keyfn = "custom" THEN custom_key(raw) ELSE standard_key(d.keyfn, args)
    IN [err |-> r.err, key |-> r.key,
        keyargs |-> IF d.keyfn = "custom" THEN raw ELSE args]

\* key_func(*args, **kwargs) of the decorated callable d, for receiver state
\* o and argument arg: key(*make_items_hashable(args)).  keyargs is what the
\* key function received.
key_func(d, o, arg) ==
    LET args == make_items_hashable(key_inputs(d, o, arg))
        r == IF d.keyfn = "custom" THEN custom_key(args) ELSE standard_key(d.keyfn, args)
    IN [err |-> r.err, key |-> r.key, keyargs |-> args]

\* ------------------------------------------- calls, one after the other
\* The arguments the calls are made with (one positional argument): 1, 1.0,
\* {"a": [1], "b": 2}, {"b": 2, "a": [1]}, and an object without a hash.
ArgVals ==
    {PyInt(1), PyFloat(1),
     Dict(<<Entry("a", List(<<PyInt(1)>>)), Entry("b", PyInt(2))>>),
     Dict(<<Entry("b", PyInt(2)), Entry("a", List(<<PyInt(1)>>))>>),
     Unhashable}
\* The values a receiver's attribute x takes.
AttrVals == {1, 2}

\* The caches of the sequential calls: the one of the decoration (or the one
\* a shared cache accessor returns) and one clone for each receiver.
KCaches == {"single"} \cup Objs
EmptyK == [entries |-> {}, hits |-> 0, misses |-> 0]

NoOp ==
    [op |-> "none", obj |-> NoObj, arg |-> NoPy, ostate |-> NoPy, keyargs |-> <<>>,
     key |-> NoPy, err |-> "-", stage |-> "-", hit |-> FALSE, invoked |-> 0,
     value |-> 0, cache |-> "-"]

\* The receivers a call can be made with: a callable whose key function
\* takes no receiver is called without one.
ReceiversOf(d) == IF d.receiver = "none" THEN {NoObj} ELSE Objs
ObjOf(o) == IF o = NoObj THEN [x |-> 0, storage |-> FALSE] ELSE objstate[o]

\* get_cache(*args): the cache that backs the call.
resolve_cache(d, o) == IF d.mode = "PerReceiverClone" THEN o ELSE "single"

\* cache[k]: the entries found under a key that is equal and hashes alike.
lookup(entries, key) ==
    {e \in entries : PyEq(e.key, key) /\ PyHash(e.key) = PyHash(key)}

\* Mutant of after_key: a call whose key cannot be derived goes on without
\* the cache.
after_key_skips_cache(err) == IF err = "-" THEN "lookup" ELSE "call"

\* k = key(*args, **kwargs): an error of the key function leaves the wrapper.
after_key(err) == IF err = "-" THEN "lookup" ELSE "raise"

\* wrapper(*args) run to its end on cache contents kc, for receiver state o
\* and argument arg; fresh is the value the original callable returns if it
\* is invoked.  A key that cannot be hashed fails in the lookup, which
\* CacheMixin.__getitem__ leaves through its finally clause with
\* __missed False.
wrapper(d, kc, o, arg, fresh) ==
    LET kf == key_func(d, o, arg)
        found == lookup(kc.entries, kf.key)
        base == [NoOp EXCEPT !.op = "call", !.arg = arg, !.keyargs = kf.keyargs,
                             !.key = kf.key]
    IN IF after_key(kf.err) = "raise"
       THEN [res |-> [base EXCEPT !.err = kf.err, !.stage = "key"], kc |-> kc]
       ELSE IF after_key(kf.err) = "call"
       THEN [res |-> [base EXCEPT !.invoked = 1, !.value = fresh], kc |-> kc]
       ELSE IF ~isHashable(kf.key)
       THEN [res |-> [base EXCEPT !.err = "TypeError", !.stage = "lookup"],
             kc |-> [kc EXCEPT !.hits = @ + 1]]
       ELSE IF found # {}
       THEN [res |-> [base EXCEPT !.hit = TRUE,
                                  !.value = (CHOOSE e \in found : TRUE).value],
             kc |-> [kc EXCEPT !.hits = @ + 1]]
       ELSE [res |-> [base EXCEPT !.invoked = 1, !.value = fresh],
             kc |-> [entries |-> kc.entries \cup {[key |-> kf.key, value |-> fresh]},
                     hits |-> kc.hits, misses |-> kc.misses + 1]]

\* The callables and parameters the calls are explored for: a function with
\* and without a receiver parameter, under each sharing, stateful, key and
\* typed parameter, and a method under the classmethod transformer (its
\* receivers are then classes).
KeyConfigs ==
    [func : {[kind |-> "function", first |-> f] : f \in {"self", "other"}},
     transformer : {"none"},
     shared : {NoOption, Flag, Accessor("plain", 0)},
     lock : {NoOption},
     stateful : {NoOption, Flag},
     key : {"none", "custom"}, typed : BOOLEAN]
    \cup [func : {[kind |-> "function", first |-> "self"]},
          transformer : {"classmethod"},
          shared : {NoOption}, lock : {NoOption}, stateful : {NoOption},
          key : {"none"}, typed : {FALSE}]

KeyInit ==
    /\ config \in KeyConfigs
    /\ decorated = Pending
    /\ objstate = [o \in Objs |-> [x |-> 1, storage |-> FALSE]]
    /\ kcache = [c \in KCaches |-> EmptyK]
    /\ lastop = NoOp /\ prevop = NoOp
    /\ ncalls = 0
    /\ cfg = Unused
    /\ CallIdle

\* The decorated callable is called with receiver o and argument arg.  In
\* PerReceiverClone mode get_cache installs the receiver's cache storage
\* before the key is derived.
Call(o, arg) ==
    /\ decorated.status = "ok"
    /\ ncalls < MaxCalls
    /\ o \in ReceiversOf(decorated)
    /\ LET c == resolve_cache(decorated, o)
           objs == IF decorated.mode = "PerReceiverClone"
                   THEN [objstate EXCEPT ![o].storage = TRUE] ELSE objstate
           recv == IF o = NoObj THEN ObjOf(o) ELSE objs[o]
           w == wrapper(decorated, kcache[c], recv, arg, ncalls + 1)
       IN /\ objstate' = objs
          /\ kcache' = [kcache EXCEPT ![c] = w.kc]
          /\ lastop' = [w.res EXCEPT !.obj = o, !.cache = c,
                                     !.ostate = IF o = NoObj THEN NoPy
                                                ELSE get_obj_state(recv)]
    /\ prevop' = lastop
    /\ ncalls' = ncalls + 1
    /\ UNCHANGED <<cvars, config, decorated>>

\* cache_key(*args) of the decorated callable: the key function alone.
CacheKey(o, arg) ==
    /\ decorated.status = "ok"
    /\ ncalls < MaxCalls
    /\ o \in ReceiversOf(decorated)
    /\ LET kf == key_func(decorated, ObjOf(o), arg)
       IN lastop' = [NoOp EXCEPT !.op = "cache_key", !.obj = o, !.arg = arg,
                                 !.ostate = IF o = NoObj THEN NoPy
                                            ELSE get_obj_state(ObjOf(o)),
                                 !.keyargs = kf.keyargs, !.key = kf.key,
                                 !.err = kf.err,
                                 !.stage = IF kf.err = "-" THEN "-" ELSE "key"]
    /\ prevop' = lastop
    /\ ncalls' = ncalls + 1
    /\ UNCHANGED <<cvars, config, decorated, objstate, kcache>>

\* The program changes an attribute of a receiver between two operations
\* (obj.x += 1).
SetAttr(o) ==
    /\ decorated.status = "ok"
    /\ ncalls < MaxCalls
    /\ o \in ReceiversOf(decorated)
    /\ objstate[o].x + 1 \in AttrVals
    /\ objstate' = [objstate EXCEPT ![o].x = @ + 1]
    /\ UNCHANGED <<cvars, config, decorated, kcache, lastop, prevop, ncalls>>

KeyNext ==
    \/ Decorate
    \/ \E o \in Objs \cup {NoObj}, arg \in ArgVals : Call(o, arg) \/ CacheKey(o, arg)
    \/ \E o \in Objs : SetAttr(o)

KeySpec == KeyInit /\ [][KeyNext]_vars


\* ================================================================= claims
\* The wrapper's steps that follow the lookup of a call.
PastLookup == {"lookup_exit", "call", "store_enter", "store_set", "return", "propagate"}
PastCall == {"store_enter", "store_set", "return", "propagate"}
Calling(t) == loc[t].op = "call"
Holds(c, k, v) == k \in DOMAIN data[c] /\ data[c][k] = v

\* C1: a call whose lookup comes after a store of an ordinary value under the
\* same key in the same cache, with no clear, eviction or other store of that
\* key in between, is a hit: it holds the stored value, never invokes the
\* original callable, and returns that value.
C1_SecondCallHits ==
    \A t \in Threads :
        (Calling(t) /\ loc[t].pc \in PastLookup
            /\ loc[t].seen.kind = "store" /\ loc[t].seen.v.tag = "val")
        => /\ loc[t].hit
           /\ loc[t].v = loc[t].seen.v
           /\ loc[t].invoked = 0
           /\ loc[t].pc \in {"lookup_exit", "return"}
           /\ (loc[t].pc = "return" => result_of(loc[t].v) = Returned(loc[t].seen.v))

\* A second call about to return the value an earlier call stored.
C1_Witness ==
    \E t \in Threads :
        /\ Calling(t) /\ loc[t].pc = "return" /\ loc[t].hit
        /\ loc[t].seen.kind = "store" /\ loc[t].seen.v.tag = "val"
        /\ nops >= 2

\* C2: a declared exception raised by the original callable is wrapped, stored
\* under the call's key and raised to the caller; a later call that finds it
\* is a hit that raises the same exception without invoking the callable.
C2_DeclaredExceptionCached ==
    \A t \in Threads :
        /\ (Calling(t) /\ loc[t].pc = "propagate") => loc[t].exc \notin exceptions
        /\ (Calling(t) /\ loc[t].pc = "return" /\ ~loc[t].hit /\ isCachedException(loc[t].v))
           => /\ loc[t].st = "stored"
              /\ loc[t].invoked = 1
              /\ result_of(loc[t].v) = Raised(loc[t].v.e)
              /\ (lastEvent[loc[t].c][loc[t].k] = Event("store", loc[t].v)
                    => Holds(loc[t].c, loc[t].k, loc[t].v))
        /\ (Calling(t) /\ loc[t].pc \in PastLookup
              /\ loc[t].seen.kind = "store" /\ isCachedException(loc[t].seen.v))
           => /\ loc[t].hit
              /\ loc[t].v = loc[t].seen.v
              /\ loc[t].invoked = 0
              /\ loc[t].pc \in {"lookup_exit", "return"}
              /\ (loc[t].pc = "return" => result_of(loc[t].v) = Raised(loc[t].seen.v.e))

\* A later call about to raise the exception an earlier call cached.
C2_Witness ==
    \E t \in Threads :
        /\ Calling(t) /\ loc[t].pc = "return" /\ loc[t].hit
        /\ loc[t].seen = Event("store", CachedException("ValueError"))
        /\ loc[t].invoked = 0

\* C3: an undeclared exception raised by the original callable propagates to
\* the caller and is never stored; a later call under the same key, with no
\* store of it in between, is a miss that invokes the callable again.
C3_UndeclaredExceptionNotCached ==
    /\ \A c \in CacheIds : \A k \in DOMAIN data[c] :
          isCachedException(data[c][k]) => data[c][k].e \in exceptions
    /\ \A t \in Threads :
          /\ isCachedException(loc[t].v) => loc[t].v.e \in exceptions
          /\ (Calling(t) /\ loc[t].pc = "propagate")
             => /\ loc[t].exc \in Raisable \ exceptions
                /\ loc[t].st = "no"
                /\ loc[t].invoked = 1
          /\ (Calling(t) /\ loc[t].pc \in PastLookup /\ loc[t].seen.kind = "raised")
             => /\ ~loc[t].hit
                /\ loc[t].pc \in PastCall => loc[t].invoked = 1

\* A call that recomputes after an earlier call under the same key raised an
\* undeclared exception.
C3_Witness ==
    \E t \in Threads :
        /\ Calling(t) /\ loc[t].pc \in PastCall /\ loc[t].seen.kind = "raised"
        /\ loc[t].invoked = 1

\* C4: no thread holds a lock while the original callable runs; a lock is held
\* only inside the lookup, the store and the clear, by a thread working on
\* that cache.
C4_NoLockDuringCall ==
    \A t \in Threads : \A c \in CacheIds :
        lockOwner[c] = t
        => /\ loc[t].pc \in {"lookup_get", "lookup_exit", "store_set", "clear_do"}
           /\ loc[t].c = c

\* The callable runs in one thread while another holds the same cache's lock.
C4_Witness ==
    \E t, u \in Threads :
        /\ t # u /\ loc[t].pc = "call" /\ loc[u].c = loc[t].c
        /\ lockOwner[loc[t].c] = u


\* The cache installed on a receiver for the decorated method.
Installed(o) == IF attr[o] = NoAttr THEN NoCache ELSE cstorage[attr[o]]
Resolved(t) == loc[t].c # NoCache
Stepped(t) == loc'[t] # loc[t]

\* C5: all threads calling the method on one receiver resolve to one and the
\* same cache instance, the one installed on the receiver.
C5_OneClonePerReceiver ==
    cfg.mode = "perobj" =>
        \A t, u \in Threads :
            (Resolved(t) /\ Resolved(u) /\ loc[t].obj = loc[u].obj)
            => /\ loc[t].c = loc[u].c
               /\ loc[t].c = Installed(loc[t].obj)

\* C6: two calls that both missed the same key of the same cache and both
\* stored: the cache holds one entry for the key, the value stored last, one
\* of the two computed values; its size is within capacity; each caller got
\* the value it computed.
C6_ConcurrentMissesLastStoreWins ==
    \A t, u \in Threads :
        (/\ t # u /\ Calling(t) /\ Calling(u)
         /\ loc[t].pc = "return" /\ loc[u].pc = "return"
         /\ loc[t].c = loc[u].c /\ loc[t].k = loc[u].k
         /\ ~loc[t].hit /\ ~loc[u].hit
         /\ loc[t].st = "stored" /\ loc[u].st = "stored"
         /\ lastEvent[loc[t].c][loc[t].k].kind = "store")
        => LET c == loc[t].c
               k == loc[t].k
               last == lastEvent[c][k].v
           IN /\ Holds(c, k, last)
              /\ last \in {loc[t].v, loc[u].v}
              /\ currsize(data[c]) <= maxsize
              /\ loc[t].invoked = 1 /\ loc[u].invoked = 1
              /\ loc[t].seen.kind # "store" /\ loc[u].seen.kind # "store"

\* Both threads computed, with different results, and both stored.
C6_Witness ==
    \E t, u \in Threads :
        /\ t # u /\ Calling(t) /\ Calling(u)
        /\ loc[t].pc = "return" /\ loc[u].pc = "return"
        /\ loc[t].c = loc[u].c /\ loc[t].k = loc[u].k
        /\ ~loc[t].hit /\ ~loc[u].hit
        /\ loc[t].st = "stored" /\ loc[u].st = "stored"
        /\ loc[t].v # loc[u].v
        /\ Holds(loc[t].c, loc[t].k, loc[u].v)
        /\ nops = 2

CachesOf(o) ==
    {c \in CacheIds : c = Installed(o) \/ \E u \in Threads : loc[u].obj = o /\ loc[u].c = c}

\* C8: no step of a call or of a cache_clear made through one receiver
\* changes the contents or the counters of another receiver's cache.
C8_ReceiversIndependent ==
    [][cfg.mode = "perobj" =>
         \A t \in Threads :
            (Stepped(t) /\ loc[t].pc # "idle")
            => \A o \in Objs \ {loc[t].obj} : \A c \in CachesOf(o) :
                  /\ data'[c] = data[c]
                  /\ hits'[c] = hits[c]
                  /\ misses'[c] = misses[c]
      ]_vars

\* One receiver's cache was cleared while the other's still holds its entry
\* and its counted miss.
C8_Witness ==
    \E a, b \in Objs :
        /\ a # b /\ Installed(a) \in CacheIds /\ Installed(b) \in CacheIds
        /\ Installed(a) # Installed(b)
        /\ lastEvent[Installed(a)]["k1"].kind = "clear"
        /\ data[Installed(b)] # EmptyData
        /\ misses[Installed(b)] = 1

\* C9: right after cache_clear's clear the cache's info shows hits 0, misses
\* 0 and currsize 0; the next lookup of a key the clear removed, with no
\* store in between, is a miss, and the call goes on to the original callable.
C9_ClearResets ==
    [][\A t \in Threads :
         Stepped(t) =>
            LET c == loc[t].c IN
            /\ loc[t].pc = "clear_do"
               => cache_info(hits'[c], misses'[c], data'[c])
                    = [hits |-> 0, misses |-> 0, maxsize |-> maxsize, currsize |-> 0]
            /\ (Calling(t) /\ loc[t].pc = "lookup_get"
                  /\ lastEvent[c][loc[t].k].kind = "clear")
               => ~loc'[t].hit
            /\ (Calling(t) /\ loc[t].pc = "lookup_exit" /\ loc[t].seen.kind = "clear")
               => loc'[t].pc = "call"
      ]_vars

\* A call recomputing a key that was cached before the clear.
C9_Witness ==
    \E t \in Threads :
        /\ Calling(t) /\ loc[t].pc = "call"
        /\ loc[t].seen.kind = "clear" /\ loc[t].seen.v # NoValue

\* C10: a store the container rejects as too large does not fail the call:
\* the computed value is returned, no container ever holds a value larger
\* than its capacity, and the next lookup of the key, with no store in
\* between, is a miss that invokes the callable.
C10_RejectedStoreSkipped ==
    /\ \A c \in CacheIds :
          /\ currsize(data[c]) <= maxsize
          /\ \A k \in DOMAIN data[c] : getsizeof(data[c][k]) <= maxsize
          /\ \A k \in Keys : lastEvent[c][k].kind = "rejected" => k \notin DOMAIN data[c]
    /\ \A t \in Threads :
          /\ (Calling(t) /\ loc[t].st = "rejected")
             => /\ loc[t].pc = "return"
                /\ ~loc[t].hit /\ loc[t].invoked = 1
                /\ getsizeof(loc[t].v) > maxsize
                /\ result_of(loc[t].v) = Returned(loc[t].v)
          /\ (Calling(t) /\ loc[t].pc \in PastLookup /\ loc[t].seen.kind = "rejected")
             => /\ ~loc[t].hit
                /\ loc[t].pc \in PastCall => loc[t].invoked = 1

\* A call recomputing after an earlier call's value was rejected, its own
\* value rejected in turn, about to return it.
C10_Witness ==
    \E t \in Threads :
        /\ Calling(t) /\ loc[t].pc = "return" /\ loc[t].st = "rejected"
        /\ loc[t].seen.kind = "rejected"
        /\ data[loc[t].c] = EmptyData


\* C14: a call whose cache resolution gave None goes straight to the original
\* callable, invokes it once and passes its value or its exception on as it
\* is (a declared exception is not wrapped); from the resolution to the end
\* of the call no lock is taken and no container, counter or counter switch
\* changes.
C14_NullCacheCallsThrough ==
    [][\A t \in Threads :
         (Stepped(t) /\ Calling(t) /\ cfg.mode = "external")
         => /\ (loc[t].pc = "gc_shared" /\ loc'[t].c = NoCache)
               => loc'[t].pc = "call_direct"
            /\ loc[t].pc = "call_direct"
               => /\ loc'[t].invoked = 1
                  /\ loc'[t].pc \in {"direct_return", "direct_raise"}
                  /\ loc'[t].pc = "direct_return" => loc'[t].v \in Values
                  /\ loc'[t].pc = "direct_raise"
                     => loc'[t].exc \in Raisable /\ loc'[t].v = NoValue
                  /\ ~loc'[t].hit /\ loc'[t].st = "no" /\ loc'[t].seen = NoEvent
            /\ (loc'[t].c = NoCache \/ loc[t].c = NoCache)
               => UNCHANGED <<data, hits, misses, counters_enabled, ctx_saved,
                              lockOwner, lastEvent>>
      ]_vars

\* A call without a cache raising a declared exception as it is, while the
\* shared cache holds an entry of another call.
C14_Witness ==
    \E t \in Threads :
        /\ cfg.mode = "external" /\ Calling(t)
        /\ loc[t].pc = "direct_raise" /\ loc[t].exc \in exceptions
        /\ loc[t].c = NoCache /\ loc[t].invoked = 1
        /\ data[0] # EmptyData


\* The characterization of the callable being decorated.
Funcdef == FunctionDefinition(config.func, config.transformer)
Decorated == decorated.status # "pending"
\* A parameter holding an accessor that takes the receiver: wrapped as a
\* classmethod, or with at least one positional argument.
ReceiverDependent(p) == is_callable(p) /\ (p.wrap = "classmethod" \/ p.nargs > 0)

C12_ReceiverAccessorRejected ==
    (Decorated /\ Funcdef.err = "-" /\ ~ismethod(Funcdef)
       /\ (ReceiverDependent(config.shared) \/ ReceiverDependent(config.lock)))
    => /\ decorated.status = "error"
       /\ decorated.err = "ValueError"
       /\ decorated.stage \in {"shared", "lock"}
       /\ decorated.stage = "shared" <=> ReceiverDependent(config.shared)

\* A plain function given a classmethod-wrapped lock accessor.
C12_Witness ==
    /\ decorated.status = "error" /\ decorated.stage = "lock"
    /\ config.func.kind = "function" /\ ~ismethod(Funcdef)
    /\ config.lock.wrap = "classmethod"

\* C19: a classmethod object, a staticmethod object or something not
\* callable given to the decorator makes the decoration fail in the
\* characterization of the callable: ValueError for the two descriptors,
\* TypeError for the other; nothing of a decorated callable is built.
C19_WrappedOrNotCallableRejected ==
    (Decorated /\ config.func.kind \in {"classmethod", "staticmethod", "notcallable"})
    => /\ decorated.status = "error"
       /\ decorated.stage = "funcdef"
       /\ decorated.err = IF config.func.kind = "notcallable"
                          THEN "TypeError" ELSE "ValueError"
       /\ decorated.mode = "-" /\ decorated.keyfn = "-"

\* A staticmethod object was refused.
C19_Witness ==
    /\ decorated.status = "error" /\ decorated.stage = "funcdef"
    /\ config.func.kind = "staticmethod"
    /\ decorated.err = "ValueError"

\* ---------------------------------------------------------------- C13
\* The arguments of the last operation as the caller passed them, the
\* receiver standing as its __dict__.
Operated == decorated.status = "ok" /\ lastop.op # "none"
ExpectedKeyArgs ==
    IF decorated.receiver = "state"
    THEN <<make_obj_hashable(lastop.ostate), make_obj_hashable(lastop.arg)>>
    ELSE <<make_obj_hashable(lastop.arg)>>

\* C13 as stated: a key function of the user's receives the arguments of
\* the call exactly as the caller passed them, none converted and none
\* stripped.
C13_CustomKeyGetsRawArguments ==
    (Operated /\ decorated.keyfn = "custom") =>
        /\ Len(lastop.keyargs) = (IF decorated.receiver = "none" THEN 1 ELSE 2)
        /\ lastop.keyargs[Len(lastop.keyargs)] = lastop.arg

\* C13, amended: a key function of the user's replaces the standard key
\* function only; it receives the arguments made hashable, without the
\* receiver of a method (with the receiver's state in its place if
\* stateful), and what it returns is the key.
C13_CustomKeyGetsNormalizedArguments ==
    (Operated /\ decorated.keyfn = "custom") =>
        /\ lastop.keyargs = ExpectedKeyArgs
        /\ lastop.key = Tuple(ExpectedKeyArgs)
        /\ lastop.stage # "key"

C13_Witness ==
    /\ Operated /\ decorated.keyfn = "custom"
    /\ decorated.receiver = "state"
    /\ lastop.op = "call" /\ lastop.arg.t = "dict"
    /\ lastop.keyargs[2].t = "hdict"
    /\ lastop.invoked = 1

\* ---------------------------------------------------------------- C15
\* The last two operations are calls that went through, with equal
\* arguments (equal after normalization and of the same type).
TwoCalls ==
    /\ Operated
    /\ prevop.op = "call" /\ lastop.op = "call"
    /\ prevop.err = "-" /\ lastop.err = "-"
SameArgs ==
    /\ PyEq(make_obj_hashable(prevop.arg), make_obj_hashable(lastop.arg))
    /\ prevop.arg.t = lastop.arg.t
SameState == PyEq(make_obj_hashable(prevop.ostate), make_obj_hashable(lastop.ostate))
SameKey == PyEq(prevop.key, lastop.key) /\ PyHash(prevop.key) = PyHash(lastop.key)
StatefulOnSharedCache ==
    /\ decorated.receiver = "state" /\ decorated.getstate = "get_obj_state"
    /\ decorated.mode \in {"SingleInstance", "ExternalAccessor"}

\* C15: a stateful method on a shared or external cache: two calls with
\* equal arguments by receivers of equal state derive the same key and the
\* second is a hit that returns the first's value; if the receiver's state
\* differs between the two calls the keys differ, and the second call, when
\* these are the only two, is a miss that invokes the callable.
C15_StatefulKeyFollowsState ==
    (TwoCalls /\ SameArgs /\ StatefulOnSharedCache) =>
        /\ SameState => (SameKey /\ lastop.hit /\ lastop.invoked = 0
                                 /\ lastop.value = prevop.value)
        /\ ~SameState => /\ ~PyEq(prevop.key, lastop.key)
                         /\ ncalls = 2 => (~lastop.hit /\ lastop.invoked = 1)

C15_Witness ==
    /\ TwoCalls /\ SameArgs /\ StatefulOnSharedCache
    /\ prevop.obj # lastop.obj /\ SameState
    /\ objstate[lastop.obj].x = 2
    /\ lastop.hit

C15_StateChanged ==
    /\ TwoCalls /\ SameArgs /\ StatefulOnSharedCache
    /\ prevop.obj = lastop.obj /\ ~SameState
    /\ ~lastop.hit

\* ---------------------------------------------------------------- C16
\* The last two operations are calls that went through on the same cache,
\* one with 1 and the other with 1.0, by receivers of equal state where the
\* state is part of the key; no key function was given.
OneAndOnePointZero ==
    /\ TwoCalls
    /\ {prevop.arg, lastop.arg} = {PyInt(1), PyFloat(1)}
    /\ prevop.cache = lastop.cache
    /\ decorated.receiver = "state" => SameState
    /\ config.key = "none"

\* C16: with typed set, f(1) and f(1.0) derive different keys and the second
\* call, when these are the only two, is a miss; without typed they derive
\* equal keys and the second call is a hit that returns the first's value.
C16_TypedTellsIntFromFloat ==
    OneAndOnePointZero =>
        /\ config.typed => /\ ~PyEq(prevop.key, lastop.key)
                           /\ ncalls = 2 => (~lastop.hit /\ lastop.invoked = 1)
        /\ ~config.typed => (SameKey /\ lastop.hit /\ lastop.invoked = 0
                                     /\ lastop.value = prevop.value)

C16_Witness ==
    /\ OneAndOnePointZero /\ config.typed
    /\ prevop.arg = PyInt(1) /\ lastop.arg = PyFloat(1)
    /\ ~lastop.hit /\ lastop.invoked = 1
    /\ Cardinality(kcache[lastop.cache].entries) = 2

C16_UntypedHit ==
    /\ OneAndOnePointZero /\ ~config.typed
    /\ lastop.hit
    /\ Cardinality(kcache[lastop.cache].entries) = 1

\* ---------------------------------------------------------------- C17
\* The step is a call of the decorated callable, made with an argument that
\* normalization cannot make hashable, under a standard key function.
CallOfUnhashable ==
    /\ decorated.status = "ok" /\ decorated.keyfn # "custom"
    /\ ncalls' = ncalls + 1 /\ lastop'.op = "call"
    /\ ~isHashable(make_obj_hashable(lastop'.arg))

\* C17: a call with an argument that cannot be made hashable, no key
\* function given, raises the error of the key derivation to the caller,
\* does not invoke the original callable, and leaves every cache as it was,
\* contents and counters.
C17_KeyErrorPropagates ==
    [][CallOfUnhashable =>
          /\ lastop'.err = "TypeError" /\ lastop'.stage = "key"
          /\ lastop'.invoked = 0 /\ ~lastop'.hit
          /\ kcache' = kcache]_vars

C17_Witness ==
    /\ Operated /\ decorated.keyfn # "custom"
    /\ prevop.op = "call" /\ prevop.invoked = 1
    /\ lastop.op = "call" /\ lastop.arg = Unhashable
    /\ lastop.err = "TypeError" /\ lastop.invoked = 0
    /\ lastop.cache = prevop.cache
    /\ Cardinality(kcache[lastop.cache].entries) = 1

\* ---------------------------------------------------------------- C18
\* The last two operations derived a key each, from the same receiver with
\* its attribute unchanged and from equal arguments.
AttrsOf(op) == SelectSeq(op.ostate.items, LAMBDA e : e.k = "x")
TwoKeysOfSameInputs ==
    /\ Operated
    /\ prevop.op # "none" /\ prevop.stage # "key" /\ lastop.stage # "key"
    /\ prevop.obj = lastop.obj /\ AttrsOf(prevop) = AttrsOf(lastop)
    /\ SameArgs
CacheKeyStep == ncalls' = ncalls + 1 /\ lastop'.op = "cache_key"

\* C18: the keys derived by two operations in a row (cache_key or a call)
\* from the same receiver and equal arguments are equal and hash alike, also
\* when the receiver got its cache storage in between; and a cache_key
\* operation leaves every cache's contents and counters, and the receivers,
\* as they were.
C18_KeyDerivationIsPure ==
    /\ [](TwoKeysOfSameInputs => SameKey)
    /\ [][CacheKeyStep => (kcache' = kcache /\ objstate' = objstate)]_vars

C18_Witness ==
    /\ TwoKeysOfSameInputs
    /\ decorated.receiver = "state" /\ decorated.mode = "PerReceiverClone"
    /\ prevop.op = "cache_key" /\ lastop.op = "call"
    /\ objstate[lastop.obj].storage
    /\ prevop.arg.t = "dict" /\ prevop.arg # lastop.arg
    /\ SameKey

\* ---------------------------------------------------------------- C20
\* The binding mode the parameters and the shape of the callable call for.
ModeByPrecedence ==
    IF config.shared.opt = "acc" THEN "ExternalAccessor"
    ELSE IF /\ config.shared.opt = "none"
            /\ Funcdef.isunboundmethod
            /\ config.transformer # "classmethod"
    THEN "PerReceiverClone"
    ELSE "SingleInstance"

\* C20: a decorated callable has the one binding mode that the precedence
\* gives: a callable shared accessor: ExternalAccessor; else no sharing
\* asked, a receiver parameter and no classmethod: PerReceiverClone; else
\* SingleInstance, where every call resolves to the one cache whatever the
\* receiver and no receiver's own cache is ever used.  The mode is set by
\* the decoration and no later step changes it.
C20_OneBindingModeByPrecedence ==
    /\ [](decorated.status = "ok" =>
            /\ decorated.mode = ModeByPrecedence
            /\ decorated.mode = "SingleInstance" =>
                 /\ lastop.op = "call" => lastop.cache = "single"
                 /\ \A o \in Objs : kcache[o] = EmptyK /\ ~objstate[o].storage)
    /\ [][decorated.status = "ok" => decorated' = decorated]_vars

C20_Witness ==
    /\ Operated /\ decorated.mode = "SingleInstance"
    /\ config.shared = NoOption /\ config.transformer = "classmethod"
    /\ prevop.op = "call" /\ lastop.op = "call"
    /\ prevop.obj # lastop.obj /\ lastop.obj # NoObj /\ prevop.obj # NoObj
    /\ lastop.cache = prevop.cache
    /\ lastop.hit

\* ---------------------------------------------------------------- C30
\* The step is a call of the decorated callable that went as far as the
\* lookup.
CallStep == decorated.status = "ok" /\ ncalls' = ncalls + 1 /\ lastop'.op = "call"

\* C30: the counted lookup of a call adds one to hits only when the
\* container returned a value for the key, one to misses only when the key
\* was absent, and nothing to either when the lookup failed with another
\* error.
C30_LookupErrorCountsNothing ==
    [][CallStep =>
          LET c == lastop'.cache IN
          /\ kcache'[c].hits = kcache[c].hits + (IF lastop'.hit THEN 1 ELSE 0)
          /\ kcache'[c].misses = kcache[c].misses + (IF lastop'.invoked = 1 THEN 1 ELSE 0)
      ]_vars

\* ---------------------------------------------------------------- C29
\* Of the last two operations, the calls on cache c that P is true of.
CallsOn(c, P(_)) ==
    (IF prevop.op = "call" /\ prevop.cache = c /\ P(prevop) THEN 1 ELSE 0)
    + (IF lastop.op = "call" /\ lastop.cache = c /\ P(lastop) THEN 1 ELSE 0)
AnsweredFromCache(op) == op.hit
InvokedOriginal(op) == op.invoked = 1
ReachedLookup(op) == op.stage # "key"

\* C29: as long as the last two operations are all there were, each cache's
\* misses is the number of invocations of the original callable, its hits
\* the number of calls answered from the cache, and their sum the number of
\* calls that reached the lookup.
C29_CountersMatchCalls ==
    (decorated.status = "ok" /\ ncalls <= 2) =>
        \A c \in KCaches :
            /\ kcache[c].misses = CallsOn(c, InvokedOriginal)
            /\ kcache[c].hits = CallsOn(c, AnsweredFromCache)
            /\ kcache[c].hits + kcache[c].misses = CallsOn(c, ReachedLookup)

\* ---------------------------------------------------------------- C22
\* A method without stateful whose calls all use one cache: shared
\* accessor, shared set, or classmethod.
MethodOnOneCache ==
    /\ decorated.receiver = "strip"
    /\ decorated.mode \in {"SingleInstance", "ExternalAccessor"}

\* C22: a method without stateful backed by one cache for all receivers:
\* of two calls in a row with equal arguments, whatever the two receivers
\* and their attributes, the second derives the key of the first and is a
\* hit that returns the value computed for the first, the callable not
\* invoked.
C22_ReceiverStrippedFromKey ==
    (TwoCalls /\ SameArgs /\ MethodOnOneCache) =>
        /\ SameKey
        /\ Len(lastop.keyargs) = 1
        /\ lastop.cache = prevop.cache
        /\ lastop.hit /\ lastop.invoked = 0
        /\ lastop.value = prevop.value

C22_Witness ==
    /\ TwoCalls /\ SameArgs /\ MethodOnOneCache
    /\ prevop.obj = "a" /\ lastop.obj = "b"
    /\ ~SameState
    /\ prevop.invoked = 1 /\ lastop.hit
    /\ lastop.value = prevop.value

Resolving == decorated.status = "ok" /\ lastop.op = "get_resource"
ResolvedAccessor == config[lastop.which]

\* C23: the accessor made of a function given as shared or lock: a function
\* without arguments is receiver-independent and is called with nothing,
\* whatever the call's arguments, even none; a function with one argument
\* is called with the call's first argument; with two or more, with the
\* first argument and the name of the decorated function; a classmethod is
\* receiver-dependent whatever its arguments, is bound to the class the
\* call came through or to the class of the instance it came through, and
\* is called with the function name or with nothing.  A receiver-dependent
\* accessor fails with TypeError on a call without arguments.
C23_AccessorFromArity ==
    Resolving =>
        LET acc == ResolvedAccessor
            args == lastop.args
            dependent == get_accessor(acc, Funcdef).is_dependent
        IN /\ dependent <=> (acc.wrap = "classmethod" \/ acc.nargs > 0)
           /\ dependent => ismethod(Funcdef)
           /\ (dependent /\ args = <<>>) => lastop.err = "TypeError"
           /\ ~dependent =>
                 /\ lastop.err = "-" /\ lastop.received = <<>>
                 /\ lastop.bound = NotBound
           /\ (dependent /\ args # <<>>) =>
                 /\ lastop.err = "-"
                 /\ (acc.wrap # "classmethod" /\ acc.nargs = 1)
                       => lastop.received = <<args[1]>> /\ lastop.bound = NotBound
                 /\ (acc.wrap # "classmethod" /\ acc.nargs > 1)
                       => lastop.received = <<args[1], funcname>> /\ lastop.bound = NotBound
                 /\ acc.wrap = "classmethod"
                       => /\ lastop.bound = Class(args[1].cls)
                          /\ lastop.received = (IF acc.nargs > 0 THEN <<funcname>> ELSE <<>>)

\* A classmethod accessor without arguments of its own, for the lock,
\* resolved for a call through an instance.
C23_Witness ==
    /\ Resolving /\ lastop.which = "lock"
    /\ ResolvedAccessor = Accessor("classmethod", 0)
    /\ lastop.args = <<Instance("A")>>
    /\ lastop.bound = Class("A") /\ lastop.received = <<>>

\* ---------------------------------------------------------------- C21
\* C21: of the steps of a call only the store of a miss changes the contents
\* of a cache: a call that is a hit goes from the lookup straight to its
\* result and changes no contents; the store changes the contents of the
\* call's cache alone, puts the computed value under the call's key, and
\* leaves every other key as it was or evicted.
C21_ContentsChangeOnlyOnMiss ==
    [][\A t \in Threads :
         (Stepped(t) /\ Calling(t)) =>
            LET c == loc[t].c
                k == loc[t].k
            IN /\ loc[t].hit =>
                    /\ data' = data
                    /\ loc'[t].pc \notin {"call", "store_enter", "store_set"}
               /\ data' # data =>
                    /\ loc[t].pc = "store_set" /\ ~loc[t].hit /\ loc[t].invoked = 1
                    /\ \A c2 \in CacheIds \ {c} : data'[c2] = data[c2]
                    /\ k \in DOMAIN data'[c] /\ data'[c][k] = loc[t].v
                    /\ \A j \in (DOMAIN data'[c]) \ {k} :
                          j \in DOMAIN data[c] /\ data'[c][j] = data[c][j]
      ]_vars

\* A call that was a hit is about to return while the store of another
\* call's miss has evicted the entry it read.
C21_Witness ==
    \E t, u \in Threads :
        /\ t # u /\ Calling(t) /\ Calling(u) /\ loc[t].c = loc[u].c
        /\ loc[t].pc = "return" /\ loc[t].hit
        /\ loc[u].pc = "return" /\ ~loc[u].hit /\ loc[u].st = "stored"
        /\ loc[u].k # loc[t].k
        /\ DOMAIN data[loc[u].c] = {loc[u].k}

\* ---------------------------------------------------------------- C24
\* The cache instances handed out so far: the decoration's and the clones
\* stored for receivers.
HandedOut == {0} \cup {cstorage[s] : s \in StorageIds} \cup {loc[u].c : u \in Threads}

InCritical(t) ==
    loc[t].pc \in {"lookup_get", "lookup_exit", "store_set", "clear_do", "info_do"}

HoldsResolvedLock(t) ==
    lock_of(t) # NoLockId => lockOwner[lock_of(t)] = t

\* C26: the wrapper, cache_clear and cache_info read and write a cache's
\* container and counters only while their thread holds the lock they
\* resolved (the lock parameter's if given, else the cache's own), no step
\* changes a cache's contents or counters but the step of such a thread, and
\* two threads whose locks are real are never both inside the lookup, store,
\* clear or info section of the same cache.
C26_CriticalSectionsExclusive ==
    /\ [](\A t \in Threads : InCritical(t) => HoldsResolvedLock(t))
    /\ [][\A c \in CacheIds :
            (data'[c] # data[c] \/ hits'[c] # hits[c] \/ misses'[c] # misses[c])
            => \E t \in Threads :
                  /\ Stepped(t) /\ InCritical(t) /\ loc[t].c = c
                  /\ HoldsResolvedLock(t)
        ]_vars
    /\ [](\A t, u \in Threads :
            (t # u /\ InCritical(t) /\ InCritical(u) /\ loc[t].c = loc[u].c)
            => (lock_of(t) = NoLockId \/ lock_of(u) = NoLockId))

\* ---------------------------------------------------------------- C28
\* The call of thread t has terminated: its value or cached exception is on
\* the way to the caller, or an exception that was not cached is.
Terminated(t) == Calling(t) /\ loc[t].pc \in {"return", "propagate"}
OwnsNoLock(t) == \A l \in LockIds : lockOwner[l] # t

\* C28: a thread whose call has terminated, with a value, a cached exception,
\* an exception of the callable that is not cached, an error of the key
\* function or an error of the container's lookup, owns no lock, and neither
\* does a thread that is in no operation.
C28_NoLockLeaked ==
    \A t \in Threads :
        (Terminated(t) \/ loc[t].pc = "idle") => OwnsNoLock(t)

\* One call ended on the container's TypeError inside the with statement,
\* another raises the exception it cached; both used a real lock.
C28_Witness ==
    \E t, u \in Threads :
        /\ t # u
        /\ Terminated(t) /\ loc[t].pc = "propagate"
        /\ loc[t].k = UnhashableKey /\ loc[t].exc = "TypeError"
        /\ lock_of(t) # NoLockId
        /\ Terminated(u) /\ loc[u].pc = "return"
        /\ isCachedException(loc[u].v) /\ loc[u].st = "stored"
        /\ lock_of(u) # NoLockId

\* ---------------------------------------------------------------- C27
\* Thread t is inside the original callable of its call.
InCallable(t) == loc[t].pc = "call"
\* The callable of t's call has terminated and the call is not over yet.
PastCallable(t) ==
    Calling(t) /\ loc[t].pc \in {"store_enter", "store_set", "return", "propagate"}
\* Thread u waits to enter the with statement of its lookup or store.
AtLock(u) ==
    /\ Calling(u) /\ loc[u].k # KeyRaises
    /\ loc[u].pc \in {"lookup_enter", "store_enter"}

\* C27: while a call's callable is running, the lock is free for any other
\* call on the same cache to enter its lookup or store (the lock is not
\* reentrant, so a call the callable makes itself is in the place of the
\* other thread's); every operation that is not inside its callable gets to
\* its callable or to its end, even if the other thread never leaves its
\* own callable; and every call whose callable has terminated gets to its
\* end.
C27_MissBlocksOnlyItself ==
    /\ [](\A t, u \in Threads :
            (t # u /\ InCallable(t) /\ AtLock(u) /\ loc[u].c = loc[t].c)
            => LockFree(lock_of(u), u))
    /\ \A u \in Threads :
          /\ (loc[u].pc \notin {"idle", "call"}) ~> (loc[u].pc \in {"idle", "call"})
          /\ PastCallable(u) ~> (loc[u].pc = "idle")

\* A call stored its value under the lock while another call of the same
\* key on the same cache, which missed before, is still in its callable.
C27_Witness ==
    \E t, u \in Threads :
        /\ t # u /\ InCallable(t)
        /\ Calling(u) /\ loc[u].pc = "return" /\ loc[u].st = "stored"
        /\ loc[u].c = loc[t].c /\ loc[u].k = loc[t].k
        /\ lock_of(u) # NoLockId /\ lock_of(u) = lock_of(t)
        /\ Holds(loc[u].c, loc[u].k, loc[u].v)

\* ---------------------------------------------------------------- C32
\* The cache installed on receiver o after the step.
InstalledNext(o) == IF attr'[o] = NoAttr THEN NoCache ELSE cstorage'[attr'[o]]

\* C32: with per-receiver caches the decoration's own cache is never written
\* (it stays empty with hits and misses 0), and once a clone is installed on
\* a receiver for the function, that receiver keeps that same clone.
C32_PrototypeUntouchedCloneKept ==
    /\ [](cfg.mode = "perobj" =>
            data[0] = EmptyData /\ hits[0] = 0 /\ misses[0] = 0)
    /\ [][cfg.mode = "perobj" =>
            \A o \in Objs :
                Installed(o) # NoCache => InstalledNext(o) = Installed(o)]_vars

\* ---------------------------------------------------------------- C31
\* Thread t leaves the counters context of its lookup.
LeavesContext(t) == loc[t].pc = "lookup_exit" /\ loc'[t].pc # "lookup_exit"

\* C31: a thread that leaves the counters context of its lookup leaves the
\* cache's automatic counting switch at the value the switch had when the
\* thread entered that context, also when another context of the same cache
\* was entered in between; and once no operation is in progress, the switch
\* of every cache is off, as it was before any call.
C31_CountersSwitchRestored ==
    /\ [][\A t \in Threads :
            LeavesContext(t) => counters_enabled'[loc[t].c] = loc[t].entered]_vars
    /\ []((\A t \in Threads : loc[t].pc = "idle")
            => \A c \in CacheIds : ~counters_enabled[c])

====
